---- MODULE Spec2Model ----
(***************************************************************************)
(* A model of epub-shrink (src/epub-shrink.py): path validation, the       *)
(* per-entry archive transcoder, the image transform's size arithmetic and *)
(* the size report.  Python floats are IEEE-754 binary64; the arithmetic   *)
(* the program does on them (N / 100.0, int(dimension * percent),          *)
(* size_diff / in_size * 100, "{:.2f}") is modelled bit-exactly on         *)
(* little-endian bit sequences, since a machine integer cannot hold a      *)
(* 53-bit significand.                                                     *)
(***************************************************************************)
EXTENDS Integers, Sequences, FiniteSets, TLC

(***************************************************************************)
(* Unbounded naturals as little-endian bit sequences (<<>> is zero).       *)
(***************************************************************************)
Min(a, b) == IF a < b THEN a ELSE b

Max(a, b) == IF a < b THEN b ELSE a

Abs(n) == IF n < 0 THEN -n ELSE n

Zeros(k) == [i \in 1..k |-> 0]

\* carries and borrows run limb by limb (8 bits each), which keeps the
\* recursion shallow
Radix == 2^8

LimbBits == CHOOSE k \in 1..31 : 2^k = Radix

BitLen(n) == CHOOSE k \in 0..31 : n < 2^k /\ (k = 0 \/ n >= 2^(k - 1))

NatToBits(n) == [i \in 1..BitLen(n) |-> (n \div 2^(i - 1)) % 2]

Norm(b) ==
    LET ones == {i \in 1..Len(b) : b[i] = 1}
    IN  IF ones = {} THEN <<>>
        ELSE SubSeq(b, 1, CHOOSE i \in ones : \A j \in ones : j <= i)

BitAt(b, i) == IF i <= Len(b) THEN b[i] ELSE 0

BitsToLimbs(b) ==
    [i \in 1..((Len(b) + LimbBits - 1) \div LimbBits) |->
        LET o == LimbBits * (i - 1)
        IN  BitAt(b, o + 1) + 2 * BitAt(b, o + 2) + 4 * BitAt(b, o + 3)
              + 8 * BitAt(b, o + 4) + 16 * BitAt(b, o + 5)
              + 32 * BitAt(b, o + 6) + 64 * BitAt(b, o + 7)
              + 128 * BitAt(b, o + 8)]

LimbsToBits(l) ==
    Norm([j \in 1..(LimbBits * Len(l)) |->
            (l[(j - 1) \div LimbBits + 1] \div 2^((j - 1) % LimbBits)) % 2])

RECURSIVE LimbsToNat(_, _)
LimbsToNat(l, i) ==
    IF i > Len(l) THEN 0 ELSE l[i] + Radix * LimbsToNat(l, i + 1)

BitsToNat(b) == LimbsToNat(BitsToLimbs(b), 1)

RECURSIVE NatToLimbs(_)
NatToLimbs(n) ==
    IF n = 0 THEN <<>> ELSE <<n % Radix>> \o NatToLimbs(n \div Radix)

ShiftLeft(b, k) == IF b = <<>> THEN b ELSE Zeros(k) \o b

RECURSIVE MulCarry(_, _, _, _)
MulCarry(l, n, i, c) ==
    IF i > Len(l) THEN NatToLimbs(c)
    ELSE LET t == l[i] * n + c
         IN  <<t % Radix>> \o MulCarry(l, n, i + 1, t \div Radix)

BigMulSmall(b, n) == LimbsToBits(MulCarry(BitsToLimbs(b), n, 1, 0))

BigInc(b) ==
    LET k == CHOOSE i \in 1..(Len(b) + 1) :
                 /\ i = Len(b) + 1 \/ b[i] = 0
                 /\ \A j \in 1..(i - 1) : b[j] = 1
    IN  [i \in 1..Max(Len(b), k) |->
            IF i < k THEN 0 ELSE IF i = k THEN 1 ELSE b[i]]

RECURSIVE SubBorrow(_, _, _, _)
SubBorrow(a, b, i, br) ==
    IF i > Len(a) THEN <<>>
    ELSE LET t == a[i] - (IF i <= Len(b) THEN b[i] ELSE 0) - br
         IN  <<IF t < 0 THEN t + Radix ELSE t>>
                 \o SubBorrow(a, b, i + 1, IF t < 0 THEN 1 ELSE 0)

\* a - b for a >= b
BigSub(a, b) == LimbsToBits(SubBorrow(BitsToLimbs(a), BitsToLimbs(b), 1, 0))

BigLess(a, b) ==
    \/ Len(a) < Len(b)
    \/ /\ Len(a) = Len(b)
       /\ \E i \in 1..Len(a) :
             /\ a[i] < b[i]
             /\ \A j \in (i + 1)..Len(a) : a[j] = b[j]

\* the limbs of floor(r * Radix^k / b) for r < b, lowest first, under a
\* sticky limb that is 1 when the division left a remainder
RECURSIVE DivLimbs(_, _, _)
DivLimbs(r, b, k) ==
    IF k = 0 THEN <<IF r = 0 THEN 0 ELSE 1>>
    ELSE DivLimbs((Radix * r) % b, b, k - 1) \o <<(Radix * r) \div b>>

\* round-half-even of bits * 2^e to a natural number
RoundHalfEvenToNat(b, e) ==
    IF e >= 0 THEN BitsToNat(ShiftLeft(b, e))
    ELSE LET d      == -e
             L      == Len(b)
             q      == IF d >= L THEN <<>> ELSE SubSeq(b, d + 1, L)
             half   == d <= L /\ b[d] = 1
             sticky == \E i \in 1..Min(d - 1, L) : b[i] = 1
             odd    == q # <<>> /\ q[1] = 1
         IN  BitsToNat(q) + (IF half /\ (sticky \/ odd) THEN 1 ELSE 0)

(***************************************************************************)
(* binary64 values: k is "num", "inf" or "nan"; a number is                *)
(* (-1)^neg * m * 2^e with m of exactly MantBits bits, or m = <<>> for 0.  *)
(***************************************************************************)
MantBits == 53

FZero(neg) == [k |-> "num", neg |-> neg, m |-> <<>>, e |-> 0]

FInf(neg) == [k |-> "inf", neg |-> neg, m |-> <<>>, e |-> 0]

FNaN == [k |-> "nan", neg |-> FALSE, m |-> <<>>, e |-> 0]

\* the binary64 nearest to (-1)^neg * b * 2^e, ties to even
Round53(neg, b, e) ==
    LET L == Len(b)
    IN  IF L = 0 THEN FZero(neg)
        ELSE IF L <= MantBits
        THEN [k |-> "num", neg |-> neg, m |-> Zeros(MantBits - L) \o b,
              e |-> e - (MantBits - L)]
        ELSE LET d      == L - MantBits
                 q      == SubSeq(b, d + 1, L)
                 half   == b[d] = 1
                 sticky == \E i \in 1..(d - 1) : b[i] = 1
                 q1     == IF half /\ (sticky \/ q[1] = 1) THEN BigInc(q) ELSE q
             IN  IF Len(q1) > MantBits
                 THEN [k |-> "num", neg |-> neg,
                       m |-> SubSeq(q1, 2, Len(q1)), e |-> e + d + 1]
                 ELSE [k |-> "num", neg |-> neg, m |-> q1, e |-> e + d]

\* float(n)
FromInt(n) == Round53(n < 0, NatToBits(Abs(n)), 0)

\* a / b on numbers that are integers, b # 0: the correctly rounded
\* quotient (K limbs of fraction leave at least two bits and the sticky
\* limb under the 53 that are kept)
FDiv(a, b) ==
    LET ua == Abs(a)
        ub == Abs(b)
        K  == (2 + MantBits + BitLen(ub)) \div LimbBits + 1
    IN  IF a = 0 THEN FZero(b < 0)
        ELSE Round53((a < 0) # (b < 0),
                     LimbsToBits(DivLimbs(ua % ub, ub, K)
                                   \o NatToLimbs(ua \div ub)),
                     -(LimbBits * (K + 1)))

\* x * n for a float x and an integer n
FMulInt(x, n) ==
    IF x.k = "nan" THEN FNaN
    ELSE IF x.k = "inf" THEN (IF n = 0 THEN FNaN ELSE FInf(x.neg # (n < 0)))
    ELSE Round53(x.neg # (n < 0), BigMulSmall(x.m, Abs(n)), x.e)

\* x / 2^s, exact
FDivPow2(x, s) == IF x.m = <<>> THEN x ELSE [x EXCEPT !.e = @ - s]

\* |x| < |y| for numbers
MagLess(x, y) ==
    LET e0 == Min(x.e, y.e)
    IN  BigLess(ShiftLeft(x.m, x.e - e0), ShiftLeft(y.m, y.e - e0))

\* x < y as IEEE compares: false when either is a NaN
FLess(x, y) ==
    IF x.k = "nan" \/ y.k = "nan" THEN FALSE
    ELSE IF x.k = "inf" THEN x.neg /\ ~(y.k = "inf" /\ y.neg)
    ELSE IF y.k = "inf" THEN ~y.neg
    ELSE IF x.neg /\ ~y.neg THEN x.m # <<>> \/ y.m # <<>>
    ELSE IF ~x.neg /\ y.neg THEN FALSE
    ELSE IF x.neg THEN MagLess(y, x) ELSE MagLess(x, y)

\* abs(x - y) for numbers x, y >= 0
FAbsDiff(x, y) ==
    LET e0 == Min(x.e, y.e)
        X  == ShiftLeft(x.m, x.e - e0)
        Y  == ShiftLeft(y.m, y.e - e0)
    IN  Round53(FALSE, IF BigLess(X, Y) THEN BigSub(Y, X) ELSE BigSub(X, Y), e0)

\* math.floor(x) and int(x) for a number x >= 0
FFloor(x) ==
    IF x.m = <<>> THEN 0
    ELSE IF x.e >= 0 THEN BitsToNat(ShiftLeft(x.m, x.e))
    ELSE IF -x.e >= Len(x.m) THEN 0
    ELSE BitsToNat(SubSeq(x.m, 1 - x.e, Len(x.m)))

\* math.ceil(x) for a number x >= 0
FCeil(x) ==
    FFloor(x) + (IF x.e < 0 /\ \E i \in 1..Min(-x.e, Len(x.m)) : x.m[i] = 1
                 THEN 1 ELSE 0)

\* "{:.2f}".format(x): the sign and the hundredths, ties to even on the
\* exact binary value
Fmt2(x) ==
    IF x.k # "num" THEN [k |-> x.k, neg |-> x.neg, h |-> 0]
    ELSE [k |-> "num", neg |-> x.neg,
          h |-> RoundHalfEvenToNat(BigMulSmall(x.m, 100), x.e)]

(***************************************************************************)
(* Option values: argparse leaves an option that was not given as None;    *)
(* --image-resize-percent is an int until main replaces it by a float.     *)
(***************************************************************************)
NoneV == [k |-> "none", n |-> 0, f |-> FZero(FALSE)]

IntV(n) == [k |-> "int", n |-> n, f |-> FZero(FALSE)]

FloatV(x) == [k |-> "float", n |-> 0, f |-> x]

\* Python's truth value of an option
Truthy(v) ==
    \/ v.k = "int" /\ v.n # 0
    \/ v.k = "float" /\ ~(v.f.k = "num" /\ v.f.m = <<>>)

(***************************************************************************)
(* The image transform on a decoded image's size.  A result is the new     *)
(* size, or the exception the call raises.                                 *)
(***************************************************************************)
Ok(w, h) == [err |-> "", w |-> w, h |-> h]

Raise(e) == [err |-> e, w |-> 0, h |-> 0]

\* percent / 100.0 if percent else None
adjust_image_resize_percent(percent) ==
    IF Truthy(percent) THEN FloatV(FDiv(percent.n, 100)) ELSE NoneV

\* new_size = [int(dimension * resize_percent) for dimension in img.size];
\* Image.resize refuses a size with a dimension below 1
resize_image(size, resize_percent) ==
    LET nw == FFloor(FMulInt(resize_percent, size.w))
        nh == FFloor(FMulInt(resize_percent, size.h))
    IN  IF nw < 1 \/ nh < 1 THEN Raise("ValueError") ELSE Ok(nw, nh)

\* Pillow's round_aspect: max(min(floor(number), ceil(number), key=key), 1),
\* where key(n) = abs(aspect - n / y) and min keeps the first of two equals
round_aspect(number, aspect, y) ==
    LET lo   == FFloor(number)
        hi   == FCeil(number)
        klo  == FAbsDiff(aspect, FDiv(lo, y))
        khi  == FAbsDiff(aspect, FDiv(hi, y))
    IN  Max(IF FLess(khi, klo) THEN hi ELSE lo, 1)

\* Image.thumbnail((x, y)) (Pillow 7 and later): the size is recomputed to
\* keep the image's own aspect ratio inside the requested box.  The branch
\* that recomputes the height (x / y < aspect) divides by a float; this
\* program never takes it (ThumbnailWidthBranch), and it is left as the
\* result "aspect-branch".
thumbnail(size, x, y) ==
    IF x >= size.w /\ y >= size.h THEN Ok(size.w, size.h)
    ELSE IF y = 0 THEN Raise("ZeroDivisionError")
    ELSE LET aspect == FDiv(size.w, size.h)
         IN  IF ~FLess(FDiv(x, y), aspect)
             THEN Ok(round_aspect(FMulInt(aspect, y), aspect, y), y)
             ELSE Raise("aspect-branch")

\* lines 72-77: the max-width step
max_width_step(size, maxwidth) ==
    IF Truthy(maxwidth) /\ size.w > maxwidth.n
    THEN LET ratio      == FDiv(maxwidth.n, size.w)
             new_height == FFloor(FMulInt(ratio, size.h))
         IN  thumbnail(size, maxwidth.n, new_height)
    ELSE Ok(size.w, size.h)

\* lines 90-95: the target format and the encoder parameters (optimize is
\* always on; quality is 0 where the format takes none).  For any other
\* subtype the function returns None, format "" here, and the caller's
\* unpacking of it raises TypeError.
determine_image_format_and_params(subtype, jpeg_quality) ==
    IF subtype \in {"jpeg", "jpg"}
    THEN [format |-> "JPEG", optimize |-> TRUE, quality |-> jpeg_quality]
    ELSE IF subtype = "png"
    THEN [format |-> "PNG", optimize |-> TRUE, quality |-> 0]
    ELSE [format |-> "", optimize |-> FALSE, quality |-> 0]

(***************************************************************************)
(* File contents.  The bytes of a file are modelled by what they decode    *)
(* to: fmt is "" for bytes that are no image (Image.open raises on them),  *)
(* otherwise the encoded format, with the size, the mode and the encoder   *)
(* parameters the bytes were written with; id tells apart files that are   *)
(* no image.                                                               *)
(***************************************************************************)
RawBytes(id) ==
    [fmt |-> "", w |-> 0, h |-> 0, mode |-> "", optimize |-> FALSE,
     quality |-> 0, id |-> id]

ImageBytes(fmt, w, h) ==
    [fmt |-> fmt, w |-> w, h |-> h, mode |-> "RGB", optimize |-> FALSE,
     quality |-> 0, id |-> 0]

NoImage == [w |-> 0, h |-> 0, mode |-> ""]

\* save_image_to_buffer: img.save(buffer, format=format_, **params)
save_image_to_buffer(img, params) ==
    [fmt |-> params.format, w |-> img.w, h |-> img.h, mode |-> img.mode,
     optimize |-> params.optimize, quality |-> params.quality, id |-> 0]

TransformedSubtypes == {"jpeg", "jpg", "png"}

\* lines 69-82: decode, resize, clamp, grayscale, encode
transform_image(content, subtype, a) ==
    IF content.fmt = ""
    THEN [err |-> "UnidentifiedImageError", bytes |-> content]
    ELSE LET s0 == Ok(content.w, content.h)
             s1 == IF Truthy(a.image_resize_percent)
                   THEN resize_image(s0, a.image_resize_percent.f) ELSE s0
             s2 == IF s1.err = "" THEN max_width_step(s1, a.image_resize_maxwidth)
                   ELSE s1
             im == [w |-> s2.w, h |-> s2.h,
                    mode |-> IF a.grayscale THEN "L" ELSE content.mode]
             ps == determine_image_format_and_params(subtype, a.jpeg_quality)
         IN  IF s2.err # "" THEN [err |-> s2.err, bytes |-> content]
             ELSE IF ps.format = "" THEN [err |-> "TypeError", bytes |-> content]
             ELSE [err |-> "", bytes |-> save_image_to_buffer(im, ps)]

\* a variant that takes gif for a PNG source instead of passing it on
compress_and_resize_image_gif(content, subtype, a) ==
    IF subtype \notin TransformedSubtypes \cup {"gif"}
    THEN [err |-> "", bytes |-> content]
    ELSE transform_image(content, IF subtype = "gif" THEN "png" ELSE subtype, a)

\* compress_and_resize_image as a whole: the bytes it returns, or the
\* exception that leaves it
compress_and_resize_image(content, subtype, a) ==
    IF subtype \notin TransformedSubtypes THEN [err |-> "", bytes |-> content]
    ELSE transform_image(content, subtype, a)

(***************************************************************************)
(* Archive entry names and paths are sequences of characters; a run of     *)
(* letters that no function looks into is written as one element.          *)
(***************************************************************************)
LastIndex(p, c) ==
    LET at == {i \in 1..Len(p) : p[i] = c}
    IN  IF at = {} THEN 0 ELSE CHOOSE i \in at : \A j \in at : j <= i

\* os.path.splitext(p)[1]: from the last dot of the last component, unless
\* only dots come before it there
splitext_ext(p) ==
    LET sep == LastIndex(p, "/")
        dot == LastIndex(p, ".")
    IN  IF dot > sep /\ \E j \in (sep + 1)..(dot - 1) : p[j] # "."
        THEN SubSeq(p, dot, Len(p)) ELSE <<>>

\* line 116: os.path.splitext(x)[1][1:]
filetype_of(filename) ==
    LET ext == splitext_ext(filename)
    IN  IF ext = <<>> THEN <<>> ELSE SubSeq(ext, 2, Len(ext))

Lower(c) == CASE c = "JPG" -> "jpg" [] c = "PNG" -> "png" [] OTHER -> c

NoMime == [top |-> "", sub |-> ""]

\* mimetypes.guess_type(name)[0]: by the extension, case-insensitively
guess_type(name) ==
    LET ext == [j \in DOMAIN splitext_ext(name) |-> Lower(splitext_ext(name)[j])]
    IN  CASE ext \in {<<".", "jpg">>, <<".", "jpeg">>} ->
                [top |-> "image", sub |-> "jpeg"]
          [] ext = <<".", "png">> -> [top |-> "image", sub |-> "png"]
          [] ext = <<".", "gif">> -> [top |-> "image", sub |-> "gif"]
          [] ext = <<".", "css">> -> [top |-> "text", sub |-> "css"]
          [] OTHER -> NoMime

\* os.path.basename
basename(p) == SubSeq(p, LastIndex(p, "/") + 1, Len(p))

\* os.path.join(a, b)
path_join(a, b) ==
    IF b # <<>> /\ b[1] = "/" THEN b
    ELSE IF a = <<>> \/ a[Len(a)] = "/" THEN a \o b
    ELSE a \o <<"/">> \o b

\* the file a path names: its components, the working directory being the
\* root directory
RECURSIVE Components(_)
Components(p) ==
    IF p = <<>> THEN <<>>
    ELSE IF p[1] = "/" THEN Components(Tail(p))
    ELSE <<p[1]>> \o Components(Tail(p))

\* the file system the run starts in: a directory d, and the files b and d/b
Dirs == {<<>>, <<"d">>}

InitialFiles == {<<"b">>, <<"d", "b">>}

isdir(p) == p # <<>> /\ Components(p) \in Dirs

isfile(disk_, p) ==
    p # <<>> /\ p[Len(p)] # "/" /\ Components(p) \in DOMAIN disk_

\* validate_file_paths: the path it returns, or the exception it raises
validate_file_paths(disk_, in_path_, out_path_) ==
    IF ~isfile(disk_, in_path_) THEN [err |-> "FileNotFoundError", path |-> <<>>]
    ELSE IF isdir(out_path_)
    THEN [err |-> "", path |-> path_join(out_path_, basename(in_path_))]
    ELSE IF out_path_ = in_path_ THEN [err |-> "FileExistsError", path |-> <<>>]
    ELSE [err |-> "", path |-> out_path_]

\* open(path, "w+b"): the exception, if any
open_for_write(disk_, p) ==
    LET c == Components(p)
    IN  IF p = <<>> THEN "FileNotFoundError"
        ELSE IF c \in Dirs THEN "IsADirectoryError"
        ELSE IF p[Len(p)] = "/" THEN "NotADirectoryError"
        ELSE IF SubSeq(c, 1, Len(c) - 1) \in Dirs THEN ""
        ELSE IF SubSeq(c, 1, Len(c) - 1) \in DOMAIN disk_ THEN "NotADirectoryError"
        ELSE "FileNotFoundError"

(***************************************************************************)
(* Archives: the list of entries in central-directory order.               *)
(***************************************************************************)
namelist(book) == [j \in DOMAIN book |-> book[j].filename]

\* ZipFile.getinfo(name): NameToInfo keeps the last entry of a name
getinfo(book, name) == book[LastIndex(namelist(book), name)]

\* the size zlib (level 9) gives the bytes: a function of the bytes alone,
\* at least the two bytes of an empty deflate stream
deflated_size(bytes) ==
    2 + (IF bytes.fmt = "" THEN bytes.id
         ELSE bytes.w * bytes.h + (IF bytes.optimize THEN 0 ELSE 1))

(***************************************************************************)
(* State.                                                                  *)
(***************************************************************************)
VARIABLES
    pc,            \* the line the program is at, or "returned" / "raised"
    exc,           \* the exception that ended the run, "" if none
    argv_percent,  \* --image-resize-percent as parsed from the command line
    args,          \* the argparse namespace main passes around
    content,       \* the content local of the function being run
    subtype,       \* compress_and_resize_image: its subtype argument
    img,           \* compress_and_resize_image: the decoded image
    returned,      \* compress_and_resize_image: the bytes it returned
    in_path,       \* args.in_epub_filepath
    out_path,      \* args.out_epub_filepath
    dest_path,     \* main's out_path, <<>> until validate_file_paths returns
    disk,          \* the files on disk: "orig" as found, "written" once
                   \* opened for writing
    in_book,       \* the source archive
    out_book,      \* the destination archive's entries so far
    out_state,     \* the destination archive: "absent", "open" or "closed"
    i,             \* the position of the for loop in in_book.namelist()
    mime_type,     \* process_epub_files: mime_type of the current item
    df,            \* the size records
    report_data,   \* main's report_data, <<>> until process_epub_files returns
    dtype,         \* how pandas holds the size columns: "int64" or "object"
    totals,        \* totals_per_filetype_sorted
    total_row,     \* the Total row's percent as rendered
    table,         \* the rows added to the table
    printed        \* whether console.print(table) has run

imgVars == <<subtype, img, returned>>

pathVars == <<in_path, out_path, dest_path, disk>>

epubVars == <<in_book, out_book, out_state, i, mime_type, df, report_data>>

reportVars == <<dtype, totals, total_row, table, printed>>

vars ==
    <<pc, exc, argv_percent, args, content, imgVars, pathVars, epubVars,
      reportVars>>

(***************************************************************************)
(* Bounds and inputs.                                                      *)
(***************************************************************************)
MaxW == 50

MaxH == 3

MaxPct == 58

MaxMaxWidth == 3

MaxPathLen == 3

MaxEntries == 2

MaxRecords == 2

JpegQualityDefault == 75

Args(pct, mw, gray) ==
    [jpeg_quality |-> JpegQualityDefault, image_resize_percent |-> pct,
     image_resize_maxwidth |-> mw, grayscale |-> gray]

OptInts(max) == {NoneV} \cup {IntV(n) : n \in 0..max}

SeqsUpTo(S, n) == UNION {[1..k -> S] : k \in 0..n}

PathChars == {"/", "d", "b"}

Paths == SeqsUpTo(PathChars, MaxPathLen) \ {<<>>}

FreshDisk == [f \in InitialFiles |-> "orig"]

IdleImage == subtype = "" /\ img = NoImage /\ returned = RawBytes(0)

IdlePaths ==
    /\ in_path = <<"b">>
    /\ out_path = <<"d", "/", "b">>
    /\ dest_path = <<>>
    /\ disk = FreshDisk

IdleEpub ==
    /\ in_book = <<>>
    /\ out_book = <<>>
    /\ out_state = "absent"
    /\ i = 1
    /\ mime_type = NoMime
    /\ df = <<>>
    /\ report_data = <<>>

IdleReport ==
    /\ dtype = "int64"
    /\ totals = <<>>
    /\ total_row = [k |-> "", neg |-> FALSE, h |-> 0]
    /\ table = <<>>
    /\ printed = FALSE

(***************************************************************************)
(* main: path validation and the opening of the two archives.              *)
(***************************************************************************)
InitPaths ==
    /\ pc = "main_179"
    /\ exc = ""
    /\ argv_percent \in {NoneV, IntV(50)}
    /\ args = Args(argv_percent, NoneV, FALSE)
    /\ content = RawBytes(0)
    /\ IdleImage
    /\ in_path \in Paths
    /\ out_path \in Paths
    /\ dest_path = <<>>
    /\ disk = FreshDisk
    /\ IdleEpub
    /\ IdleReport

\* main, line 179
ValidateFilePaths ==
    /\ pc = "main_179"
    /\ LET r == validate_file_paths(disk, in_path, out_path)
       IN  IF r.err # ""
           THEN pc' = "raised" /\ exc' = r.err /\ UNCHANGED dest_path
           ELSE pc' = "main_180" /\ dest_path' = r.path /\ UNCHANGED exc
    /\ UNCHANGED <<argv_percent, args, content, imgVars, in_path, out_path,
                   disk, epubVars, reportVars>>

\* main, lines 180-181
AdjustPercent ==
    /\ pc = "main_180"
    /\ pc' = "l46"
    /\ args' = IF Truthy(args.image_resize_percent)
               THEN [args EXCEPT !.image_resize_percent =
                        adjust_image_resize_percent(@)]
               ELSE args
    /\ UNCHANGED <<exc, argv_percent, content, imgVars, pathVars, epubVars,
                   reportVars>>

\* where the for loop of line 48 goes with n items done
LoopOrReturn(n) == IF n > Len(in_book) THEN "l63" ELSE "l49"

\* lines 45-47: the source is opened for reading, then the destination for
\* writing, which creates it or cuts an existing file to nothing
OpenArchives ==
    /\ pc = "l46"
    /\ LET e == open_for_write(disk, dest_path)
       IN  IF e # ""
           THEN /\ pc' = "raised"
                /\ exc' = e
                /\ UNCHANGED <<disk, out_state>>
           ELSE /\ pc' = LoopOrReturn(1)
                /\ disk' = [f \in DOMAIN disk \cup {Components(dest_path)} |->
                              IF f = Components(dest_path) THEN "written"
                              ELSE disk[f]]
                /\ out_state' = "open"
                /\ UNCHANGED exc
    /\ df' = <<>>
    /\ out_book' = <<>>
    /\ i' = 1
    /\ UNCHANGED <<argv_percent, args, content, imgVars, in_path, out_path,
                   dest_path, in_book, mime_type, report_data, reportVars>>

NextPaths ==
    \/ ValidateFilePaths
    \/ AdjustPercent
    \/ OpenArchives

SpecPaths == InitPaths /\ [][NextPaths]_vars

(***************************************************************************)
(* compress_and_resize_image, step by step, on one image.                  *)
(***************************************************************************)
InitImage ==
    /\ pc = "main_180"
    /\ exc = ""
    /\ argv_percent \in OptInts(MaxPct)
    /\ \E mw \in OptInts(MaxMaxWidth), gray \in BOOLEAN :
          args = Args(argv_percent, mw, gray)
    /\ \E w \in 1..MaxW, h \in 1..MaxH : content = ImageBytes("JPEG", w, h)
    /\ subtype \in {"jpeg", "png", "gif"}
    /\ img = NoImage
    /\ returned = RawBytes(0)
    /\ IdlePaths
    /\ IdleEpub
    /\ IdleReport

\* process_epub_files, line 54: the call, with the archives open
CallTransform ==
    /\ pc = "l46"
    /\ pc' = "l66"
    /\ UNCHANGED <<exc, argv_percent, args, content, imgVars, pathVars,
                   epubVars, reportVars>>

\* lines 66-67
CheckSubtype ==
    /\ pc = "l66"
    /\ IF subtype \notin TransformedSubtypes
       THEN pc' = "returned" /\ returned' = content
       ELSE pc' = "l69" /\ UNCHANGED returned
    /\ UNCHANGED <<exc, argv_percent, args, content, subtype, img, pathVars,
                   epubVars, reportVars>>

\* line 69: Image.open
OpenImage ==
    /\ pc = "l69"
    /\ IF content.fmt = ""
       THEN pc' = "raised" /\ exc' = "UnidentifiedImageError" /\ UNCHANGED img
       ELSE /\ pc' = "l70"
            /\ img' = [w |-> content.w, h |-> content.h, mode |-> content.mode]
            /\ UNCHANGED exc
    /\ UNCHANGED <<argv_percent, args, content, subtype, returned, pathVars,
                   epubVars, reportVars>>

Step(r, next) ==
    IF r.err # ""
    THEN pc' = "raised" /\ exc' = r.err /\ UNCHANGED img
    ELSE pc' = next /\ img' = [img EXCEPT !.w = r.w, !.h = r.h] /\ UNCHANGED exc

\* lines 70-71
ResizeStep ==
    /\ pc = "l70"
    /\ Step(IF Truthy(args.image_resize_percent)
            THEN resize_image(img, args.image_resize_percent.f)
            ELSE Ok(img.w, img.h), "l72")
    /\ UNCHANGED <<argv_percent, args, content, subtype, returned, pathVars,
                   epubVars, reportVars>>

\* lines 72-77
MaxWidthStep ==
    /\ pc = "l72"
    /\ Step(max_width_step(img, args.image_resize_maxwidth), "l79")
    /\ UNCHANGED <<argv_percent, args, content, subtype, returned, pathVars,
                   epubVars, reportVars>>

\* lines 79-80
GrayscaleStep ==
    /\ pc = "l79"
    /\ pc' = "l81"
    /\ img' = IF args.grayscale THEN [img EXCEPT !.mode = "L"] ELSE img
    /\ UNCHANGED <<exc, argv_percent, args, content, subtype, returned,
                   pathVars, epubVars, reportVars>>

\* lines 81-82
SaveStep ==
    /\ pc = "l81"
    /\ LET ps == determine_image_format_and_params(subtype, args.jpeg_quality)
       IN  IF ps.format = ""
           THEN pc' = "raised" /\ exc' = "TypeError" /\ UNCHANGED returned
           ELSE /\ pc' = "returned"
                /\ returned' = save_image_to_buffer(img, ps)
                /\ UNCHANGED exc
    /\ UNCHANGED <<argv_percent, args, content, subtype, img, pathVars,
                   epubVars, reportVars>>

NextImage ==
    \/ AdjustPercent
    \/ CallTransform
    \/ CheckSubtype
    \/ OpenImage
    \/ ResizeStep
    \/ MaxWidthStep
    \/ GrayscaleStep
    \/ SaveStep

SpecImage == InitImage /\ [][NextImage]_vars

(***************************************************************************)
(* process_epub_files on a source archive.                                 *)
(***************************************************************************)
Names ==
    {<<"a", ".", "jpg">>, <<"a", ".", "PNG">>, <<"b", ".", "gif">>,
     <<"c", ".", "css">>}

Contents == {RawBytes(1), ImageBytes("JPEG", 4, 3), ImageBytes("PNG", 1, 1)}

\* the compressed sizes the source archive may report for an entry
InSizes == {0, 9}

Entries ==
    [filename : Names, data : Contents, compress_size : InSizes]

\* the option sets a run may have been started with
Configs ==
    {Args(NoneV, NoneV, FALSE), Args(IntV(50), NoneV, TRUE),
     Args(NoneV, IntV(3), FALSE), Args(IntV(50), IntV(3), TRUE)}

\* args as main hands them to process_epub_files (lines 180-181 done)
Adjusted(a) ==
    IF Truthy(a.image_resize_percent)
    THEN [a EXCEPT !.image_resize_percent = adjust_image_resize_percent(@)]
    ELSE a

InitEpub ==
    /\ pc = "l46"
    /\ exc = ""
    /\ \E a \in Configs :
          argv_percent = a.image_resize_percent /\ args = Adjusted(a)
    /\ content = RawBytes(0)
    /\ IdleImage
    /\ in_path = <<"b">>
    /\ out_path = <<"d">>
    /\ dest_path = <<"d", "/", "b">>
    /\ disk = FreshDisk
    /\ in_book \in SeqsUpTo(Entries, MaxEntries)
    /\ out_book = <<>>
    /\ out_state = "absent"
    /\ i = 1
    /\ mime_type = NoMime
    /\ df = <<>>
    /\ report_data = <<>>
    /\ IdleReport

\* the item the for loop is at
item == namelist(in_book)[i]

\* lines 49-51
ReadItem ==
    /\ pc = "l49"
    /\ pc' = "l52"
    /\ content' = getinfo(in_book, item).data
    /\ mime_type' = guess_type(item)
    /\ UNCHANGED <<exc, argv_percent, args, imgVars, pathVars, in_book,
                   out_book, out_state, i, df, report_data, reportVars>>

\* whether line 52 sends the item to compress_and_resize_image
is_image(mime) == mime # NoMime /\ mime.top = "image"

\* a variant that keeps the bytes as they were when the transform fails
transform_item_swallow(content_, mime, a) ==
    IF is_image(mime) /\ compress_and_resize_image(content_, mime.sub, a).err = ""
    THEN compress_and_resize_image(content_, mime.sub, a)
    ELSE [err |-> "", bytes |-> content_]

\* what lines 52-54 make of the content: the new content, or the exception
transform_item(content_, mime, a) ==
    IF is_image(mime) THEN compress_and_resize_image(content_, mime.sub, a)
    ELSE [err |-> "", bytes |-> content_]

\* lines 52-54; an exception leaves both with blocks, which closes the
\* destination archive as it is
TransformItem ==
    /\ pc = "l52"
    /\ LET r == transform_item(content, mime_type, args)
       IN  IF r.err # ""
           THEN /\ pc' = "raised"
                /\ exc' = r.err
                /\ out_state' = "closed"
                /\ UNCHANGED content
           ELSE /\ pc' = "l55"
                /\ content' = r.bytes
                /\ UNCHANGED <<exc, out_state>>
    /\ UNCHANGED <<argv_percent, args, imgVars, pathVars, in_book, out_book,
                   i, mime_type, df, report_data, reportVars>>

\* a variant that writes the name in lower case
writestr_lower(book, name, data) ==
    Append(book, [filename |-> [j \in DOMAIN name |-> Lower(name[j])],
                  data |-> data, compress_size |-> deflated_size(data)])

\* ZipFile.writestr(name, data) on an archive opened with ZIP_DEFLATED,
\* level 9: a new entry at the end, also when the name is there already
writestr(book, name, data) ==
    Append(book, [filename |-> name, data |-> data,
                  compress_size |-> deflated_size(data)])

\* line 55: out_book.writestr(item, content)
WriteItem ==
    /\ pc = "l55"
    /\ pc' = "l56"
    /\ out_book' = writestr(out_book, item, content)
    /\ UNCHANGED <<exc, argv_percent, args, content, imgVars, pathVars,
                   in_book, out_state, i, mime_type, df, report_data,
                   reportVars>>

\* lines 56-60: the row of the current item
size_row(in_book_, out_book_, item_) ==
    [filename |-> getinfo(in_book_, item_).filename,
     in_size  |-> getinfo(in_book_, item_).compress_size,
     out_size |-> getinfo(out_book_, item_).compress_size]

\* lines 56-62, and the loop's step to the next item; leaving the loop
\* leaves the with blocks, which closes the archives
AppendRow ==
    /\ pc = "l56"
    /\ df' = Append(df, size_row(in_book, out_book, item))
    /\ i' = i + 1
    /\ pc' = LoopOrReturn(i + 1)
    /\ out_state' = IF i + 1 > Len(in_book) THEN "closed" ELSE out_state
    /\ UNCHANGED <<exc, argv_percent, args, content, imgVars, pathVars,
                   in_book, out_book, mime_type, report_data, reportVars>>

\* line 63 and main, line 182
ReturnRecords ==
    /\ pc = "l63"
    /\ pc' = "main_183"
    /\ report_data' = df
    /\ out_state' = "closed"
    /\ UNCHANGED <<exc, argv_percent, args, content, imgVars, pathVars,
                   in_book, out_book, i, mime_type, df, reportVars>>

NextEpub ==
    \/ OpenArchives
    \/ ReadItem
    \/ TransformItem
    \/ WriteItem
    \/ AppendRow
    \/ ReturnRecords

SpecEpub == InitEpub /\ [][NextEpub]_vars

(***************************************************************************)
(* report_file_sizes on the size records.                                  *)
(***************************************************************************)
\* format_bytes: the sign, the hundredths of the scaled size and the suffix
format_bytes(size) ==
    LET a == Abs(size)
        n == IF a >= 1024 * 1024 THEN 2 ELSE IF a >= 1024 THEN 1 ELSE 0
    IN  [neg  |-> size < 0,
         h    |-> Fmt2(FDivPow2(FromInt(a), 10 * n)).h,
         unit |-> <<" b", "KB", "MB">>[n + 1]]

RECURSIVE SumFrom(_, _, _)
SumFrom(rows, col, j) ==
    IF j > Len(rows) THEN 0 ELSE rows[j][col] + SumFrom(rows, col, j + 1)

\* a column's sum
Sum(rows, col) == SumFrom(rows, col, 1)

\* the rows of one file type, in order
OfType(rows, ft) == SelectSeq(rows, LAMBDA r : filetype_of(r.filename) = ft)

\* x / y * 100 on two sums.  With y = 0 an int64 column divides as numpy
\* does, to inf or nan, and Python integers (an object column) raise.
percent_of(x, y, dtype_) ==
    IF y # 0 THEN [err |-> "", f |-> FMulInt(FDiv(x, y), 100)]
    ELSE IF dtype_ = "object" THEN [err |-> "ZeroDivisionError", f |-> FNaN]
    ELSE [err |-> "", f |-> IF x = 0 THEN FNaN ELSE FInf(x < 0)]

\* lines 116-120: one row per file type
totals_row(rows, ft, dtype_) ==
    LET in_  == Sum(OfType(rows, ft), "in_size")
        out_ == Sum(OfType(rows, ft), "out_size")
    IN  [filetype |-> ft, in_size |-> in_, out_size |-> out_,
         size_diff |-> out_ - in_,
         percent_diff |-> percent_of(out_ - in_, in_, dtype_)]

totals_per_filetype(rows, dtype_) ==
    {totals_row(rows, filetype_of(rows[j].filename), dtype_) :
        j \in DOMAIN rows}

\* a variant that sorts descending
sorted_descending(rows) ==
    \A j, k \in DOMAIN rows :
        j < k => ~FLess(rows[j].percent_diff.f, rows[k].percent_diff.f)

\* line 121: sort_values(by='percent_diff', ascending=True) leaves the rows
\* ascending with the NaN rows last; which of two equal rows comes first
\* is not fixed (the default sort is not stable)
sorted_ascending(rows) ==
    \A j, k \in DOMAIN rows :
        j < k =>
            /\ ~FLess(rows[k].percent_diff.f, rows[j].percent_diff.f)
            /\ rows[j].percent_diff.f.k = "nan" => rows[k].percent_diff.f.k = "nan"

Orderings(S) ==
    {q \in [1..Cardinality(S) -> S] : \A j, k \in DOMAIN q : q[j] = q[k] => j = k}

sort_values(S) == {q \in Orderings(S) : sorted_ascending(q)}

\* lines 143-149: a row of the table
table_row(r) ==
    [filetype |-> r.filetype, in_size |-> format_bytes(r.in_size),
     out_size |-> format_bytes(r.out_size),
     size_diff |-> format_bytes(r.size_diff),
     percent |-> Fmt2(r.percent_diff.f)]

ReportNames == {<<"a", ".", "jpg">>, <<"c", ".", "css">>, <<"mimetype">>}

ReportInSizes == {0, 500, 1000}

ReportOutSizes == {500, 800}

Records ==
    [filename : ReportNames, in_size : ReportInSizes, out_size : ReportOutSizes]

InitReport ==
    /\ pc = "main_183"
    /\ exc = ""
    /\ argv_percent = NoneV
    /\ args = Args(NoneV, NoneV, FALSE)
    /\ content = RawBytes(0)
    /\ IdleImage
    /\ IdlePaths
    /\ in_book = <<>>
    /\ out_book = <<>>
    /\ out_state = "closed"
    /\ i = 1
    /\ mime_type = NoMime
    /\ df = <<>>
    /\ report_data \in SeqsUpTo(Records, MaxRecords)
    /\ dtype \in {"int64", "object"}
    /\ totals = <<>>
    /\ total_row = [k |-> "", neg |-> FALSE, h |-> 0]
    /\ table = <<>>
    /\ printed = FALSE

\* where the loop of line 142 goes with n rows added
RowsOrTotal(n, all) == IF n < Len(all) THEN "l142" ELSE "l151"

\* lines 116-139: the totals per file type, sorted; the division of line
\* 120 may raise
ComputeTotals ==
    /\ pc = "main_183"
    /\ LET rows == totals_per_filetype(report_data, dtype)
       IN  IF \E r \in rows : r.percent_diff.err # ""
           THEN /\ pc' = "raised"
                /\ exc' = "ZeroDivisionError"
                /\ UNCHANGED totals
           ELSE /\ totals' \in sort_values(rows)
                /\ pc' = RowsOrTotal(0, totals')
                /\ UNCHANGED exc
    /\ UNCHANGED <<argv_percent, args, content, imgVars, pathVars, epubVars,
                   dtype, total_row, table, printed>>

\* lines 142-149: one pass of the loop
AddRow ==
    /\ pc = "l142"
    /\ table' = Append(table, table_row(totals[Len(table) + 1]))
    /\ pc' = RowsOrTotal(Len(table) + 1, totals)
    /\ UNCHANGED <<exc, argv_percent, args, content, imgVars, pathVars,
                   epubVars, dtype, totals, total_row, printed>>

\* a variant that takes the percent of the output total
total_percentage_of_output(rows, dtype_) ==
    percent_of(Sum(rows, "size_diff"), Sum(rows, "out_size"), dtype_)

\* line 153: the percent over all records
total_percentage(rows, dtype_) ==
    percent_of(Sum(rows, "size_diff"), Sum(rows, "in_size"), dtype_)

\* lines 151-162: the Total row; the division of line 153 may raise
AddTotalRow ==
    /\ pc = "l151"
    /\ LET t == total_percentage(totals, dtype)
       IN  IF t.err # ""
           THEN /\ pc' = "raised"
                /\ exc' = t.err
                /\ UNCHANGED <<table, total_row>>
           ELSE /\ pc' = "l164"
                /\ total_row' = Fmt2(t.f)
                /\ table' = Append(table,
                       [filetype |-> <<"Total">>,
                        in_size |-> format_bytes(Sum(totals, "in_size")),
                        out_size |-> format_bytes(Sum(totals, "out_size")),
                        size_diff |-> format_bytes(Sum(totals, "size_diff")),
                        percent |-> Fmt2(t.f)])
                /\ UNCHANGED exc
    /\ UNCHANGED <<argv_percent, args, content, imgVars, pathVars, epubVars,
                   dtype, totals, printed>>

\* lines 164-174: console.print(table)
PrintTable ==
    /\ pc = "l164"
    /\ pc' = "done"
    /\ printed' = TRUE
    /\ UNCHANGED <<exc, argv_percent, args, content, imgVars, pathVars,
                   epubVars, dtype, totals, total_row, table>>

NextReport ==
    \/ ComputeTotals
    \/ AddRow
    \/ AddTotalRow
    \/ PrintTable

SpecReport == InitReport /\ [][NextReport]_vars

(***************************************************************************)
(* The claims.                                                             *)
(***************************************************************************)

\* Image.thumbnail is only ever asked for a box at least as wide, for its
\* height, as the image: the branch that recomputes the height is not taken.
ThumbnailWidthBranch == exc # "aspect-branch"

\* an entry name whose MIME type is absent, not image/*, or an image type
\* other than jpeg/jpg/png
passes_through(name) ==
    LET m == guess_type(name)
    IN  m = NoMime \/ m.top # "image" \/ m.sub \notin {"jpeg", "jpg", "png"}

C2_NamesPrefix ==
    /\ Len(out_book) <= Len(in_book)
    /\ \A j \in DOMAIN out_book : out_book[j].filename = in_book[j].filename
    /\ pc \in {"l63", "main_183"} => Len(out_book) = Len(in_book)

\* C2's case: a completed run over two entries of different names.
C2_Witness ==
    /\ pc = "main_183"
    /\ Len(out_book) = 2
    /\ out_book[1].filename # out_book[2].filename

\* C3: when the destination path equals the source path, also when it was
\* built from a directory and the source's base name, the run raises
\* before the destination is opened, and the source file stays as it was.
C3_DestEqualsSourceRaises ==
    dest_path = in_path =>
        /\ pc # "l46"
        /\ disk[Components(in_path)] = "orig"

\* C4: a file type whose input sizes sum to zero (and a total input of
\* zero) does not raise, and its percent is rendered as zero or N/A.
C4_ZeroInputSentinel ==
    /\ exc = ""
    /\ \A j \in DOMAIN table :
          table[j].in_size.h = 0 =>
              \/ table[j].percent = [k |-> "num", neg |-> FALSE, h |-> 0]
              \/ table[j].percent.k = "n/a"

\* the rendered percent p is x / y * 100 rounded to two decimals
RendersPercent(p, x, y) ==
    /\ p.k = "num"
    /\ p.neg = (x < 0)
    /\ 2 * Abs(p.h * y - Abs(x) * 10000) <= y

\* the rendered percents of the table's rows, by file type
PercentShown(ft) ==
    {table[j].percent : j \in {k \in DOMAIN table : table[k].filetype = ft}}

\* C5: each group's percent is (sum out - sum in) / sum in * 100 over the
\* records of its file type, and the Total percent is that of the sums over
\* all records; (1000, 800) and (500, 500) give -20.00%, 0.00% and -13.33%.
C5_PercentFromSums ==
    /\ \A j \in DOMAIN table :
          LET ft   == table[j].filetype
              rows == IF ft = <<"Total">> THEN report_data
                      ELSE OfType(report_data, ft)
              in_  == Sum(rows, "in_size")
              out_ == Sum(rows, "out_size")
          IN  in_ # 0 =>
                /\ RendersPercent(table[j].percent, out_ - in_, in_)
                /\ table[j].percent = Fmt2(FMulInt(FDiv(out_ - in_, in_), 100))
    /\ \A j \in DOMAIN totals : j <= Len(table) =>
          table[j].filetype = totals[j].filetype
    /\ ( /\ pc = "done"
         /\ {<<r.filetype, r.in_size, r.out_size>> : r \in
                {totals[j] : j \in DOMAIN totals}}
              = {<<<<"jpg">>, 1000, 800>>, <<<<"css">>, 500, 500>>} )
       => /\ PercentShown(<<"jpg">>) = {[k |-> "num", neg |-> TRUE, h |-> 2000]}
          /\ PercentShown(<<"css">>) = {[k |-> "num", neg |-> FALSE, h |-> 0]}
          /\ PercentShown(<<"Total">>) = {[k |-> "num", neg |-> TRUE, h |-> 1333]}

\* C5's case: the report of the groups (1000, 800) and (500, 500) is done.
C5_Witness ==
    /\ pc = "done"
    /\ Len(table) = 3
    /\ \E j, k \in DOMAIN totals :
          /\ totals[j].in_size = 1000 /\ totals[j].out_size = 800
          /\ totals[k].in_size = 500 /\ totals[k].out_size = 500

\* C6: with a non-zero integer percent N the resize step takes (W, H) to
\* (floor(W * N / 100), floor(H * N / 100)); with N = 0 or no percent it
\* leaves the size alone.
C6_ResizeFloor ==
    [][(pc = "l70" /\ pc' = "l72") =>
          IF argv_percent.k = "int" /\ argv_percent.n # 0
          THEN /\ img'.w = (img.w * argv_percent.n) \div 100
               /\ img'.h = (img.h * argv_percent.n) \div 100
          ELSE img' = img]_vars

\* C7: the max-width step takes the size (w, h) the percent step left to
\* (M, floor(h * M / w)) when w exceeds the configured M, and leaves it
\* alone otherwise; the width after it is never above M.
C7_MaxWidthClamp ==
    [][(pc = "l72" /\ pc' = "l79" /\ Truthy(args.image_resize_maxwidth)) =>
          LET M == args.image_resize_maxwidth.n
          IN  /\ img'.w <= M
              /\ IF img.w > M
                 THEN /\ img'.w = M
                      /\ img'.h = (img.h * M) \div img.w
                 ELSE img' = img]_vars

\* p < q on rendered percents, as numbers
RenderedLess(p, q) ==
    LET v(x) == IF x.neg THEN -x.h ELSE x.h
    IN  IF p.k = "nan" \/ q.k = "nan" THEN FALSE
        ELSE IF p.k = "inf" THEN p.neg /\ ~(q.k = "inf" /\ q.neg)
        ELSE IF q.k = "inf" THEN ~q.neg
        ELSE v(p) < v(q)

IsTotal(r) == r.filetype = <<"Total">>

\* C8: the file-type rows of the table stand in ascending order of percent
\* (no row has a smaller percent than a row before it), and the Total row
\* comes after every file-type row.
C8_RowsAscending ==
    /\ \A j, k \in DOMAIN table :
          (j < k /\ ~IsTotal(table[j]) /\ ~IsTotal(table[k])) =>
              /\ ~RenderedLess(table[k].percent, table[j].percent)
              /\ ~FLess(totals[k].percent_diff.f, totals[j].percent_diff.f)
    /\ \A j \in DOMAIN table :
          IsTotal(table[j]) => j = Len(table) /\ j = Len(totals) + 1
    /\ \A j \in DOMAIN table :
          ~IsTotal(table[j]) => table[j] = table_row(totals[j])
    /\ printed => Len(table) = Cardinality(
                     {filetype_of(report_data[j].filename) :
                         j \in DOMAIN report_data}) + 1

\* C8's case: a printed table whose second file-type row has the larger
\* percent.
C8_Witness ==
    /\ printed
    /\ Len(table) = 3
    /\ RenderedLess(table[1].percent, table[2].percent)

\* the transform of the item at hand fails
TransformFails ==
    /\ pc = "l52"
    /\ is_image(mime_type)
    /\ compress_and_resize_image(content, mime_type.sub, args).err # ""

\* C9: a failing transform of the k-th entry ends the run there: nothing is
\* written or recorded for entry k or later, no records are returned, no
\* report is printed, nothing is retried, and the destination archive is
\* left closed with exactly the entries before k.
C9_AbortAtFailure ==
    /\ [](pc = "raised" =>
             /\ Len(out_book) = i - 1
             /\ \A j \in DOMAIN out_book :
                   out_book[j].filename = in_book[j].filename
             /\ Len(df) = i - 1
             /\ report_data = <<>>
             /\ table = <<>>
             /\ ~printed
             /\ out_state = "closed"
             /\ Components(dest_path) \in DOMAIN disk)
    /\ [][TransformFails =>
             /\ pc' = "raised"
             /\ exc' # ""
             /\ UNCHANGED <<out_book, df, i, report_data>>]_vars
    /\ [][pc # "raised"]_vars

\* C9's case: the transform of the second entry failed.
C9_Witness == pc = "raised" /\ i = 2 /\ Len(out_book) = 1

\* C10: the records are one per source entry, in order, each appended after
\* its entry was written, and record j holds entry j's name, entry j's
\* compressed size in the source and entry j's compressed size in the
\* destination, also when a name occurs more than once.
C10_RowsMatchEntries ==
    /\ Len(df) <= Len(out_book)
    /\ Len(df) = (IF pc = "l56" THEN i - 1 ELSE Len(out_book))
    /\ \A j \in DOMAIN df :
          df[j] = [filename |-> in_book[j].filename,
                   in_size  |-> in_book[j].compress_size,
                   out_size |-> out_book[j].compress_size]

====
